---- MODULE Spec2Model ----
(***************************************************************************)
(* Model of the sfdc-mcp gateway (src/server.js): the Express layer stack, *)
(* the six MCP tools registered by serverFactory, the client-credentials   *)
(* token exchange and the calls each tool handler makes on the backend     *)
(* connection.                                                             *)
(*                                                                         *)
(* Strings are sequences of one-character strings when their characters    *)
(* matter (caller values, escaping); the fixed parts of a template literal *)
(* are kept as one chunk each.  An await is two steps: the call is issued  *)
(* (recorded in sent, state "inflight") and later completes.               *)
(***************************************************************************)
EXTENDS Integers, Sequences, FiniteSets, TLC

VARIABLES
  profile,            \* "single": one dispatch at a time, every input; "conc": several
  pc,                 \* where each dispatch stands
  req,                \* the HTTP request of each dispatch
  layer,              \* the Express layer the request has reached
  call,               \* the tool call of the request body: tool and arguments
  conn,               \* the handler's conn
  resolvedAccountId,  \* create_case's resolvedAccountId
  sent,               \* the outbound calls of each dispatch, in issue order
  outcome             \* how the dispatch ended

vars == <<profile, pc, req, layer, call, conn, resolvedAccountId, sent, outcome>>

(* ------------------------------ bounds -------------------------------- *)

\* longest caller string whose characters are enumerated
MaxLen == 2
\* dispatches that may be in progress at once under SpecConc
NumDispatch == 2

(* ------------------------- program constants -------------------------- *)

MinIdLen == 10
MaxTextLen == 255
MaxDescLen == 32000
MinLimit == 1
MaxLimit == 20
DefaultLimit == 10

(* ------------------------------ strings ------------------------------- *)

Quote == "'"
Backslash == "\\"

\* the characters caller strings are built from
Alphabet == {"a", Quote, Backslash}

RECURSIVE StringsOfLen(_)
StringsOfLen(n) ==
  IF n = 0 THEN {<<>>}
  ELSE {Append(s, c) : s \in StringsOfLen(n - 1), c \in Alphabet}

StringsUpTo(n) == UNION {StringsOfLen(k) : k \in 0..n}

\* String.prototype.replace(/'/g, "\\'")
RECURSIVE ReplaceQuotes(_)
ReplaceQuotes(s) ==
  IF s = <<>> THEN <<>>
  ELSE (IF Head(s) = Quote THEN <<Backslash, Quote>> ELSE <<Head(s)>>)
       \o ReplaceQuotes(Tail(s))

\* Array.prototype.join("; ")
RECURSIVE Join(_)
Join(xs) ==
  IF xs = <<>> THEN <<>>
  ELSE IF Len(xs) = 1 THEN <<xs[1]>>
  ELSE <<xs[1], "; ">> \o Join(Tail(xs))

\* decimal text of a natural number, as a template literal prints it
DigitChar(n) == CASE n = 0 -> "0" [] n = 1 -> "1" [] n = 2 -> "2" [] n = 3 -> "3"
                  [] n = 4 -> "4" [] n = 5 -> "5" [] n = 6 -> "6" [] n = 7 -> "7"
                  [] n = 8 -> "8" [] n = 9 -> "9"

RECURSIVE Dec(_)
Dec(n) == IF n < 10 THEN <<DigitChar(n)>> ELSE Append(Dec(n \div 10), DigitChar(n % 10))

\* a JSON number: whole part and tenths (frac = 0 for an integer)
Num(w, f) == [whole |-> w, frac |-> f]

NumText(x) == IF x.frac = 0 THEN Dec(x.whole) ELSE Dec(x.whole) \o <<".">> \o Dec(x.frac)

\* JavaScript truthiness of a string value
Truthy(s) == s # <<>>

Has(args, k) == k \in DOMAIN args

\* `${v ? ... : ...}` on an optional argument: present and truthy
Given(args, k) == Has(args, k) /\ Truthy(args[k])

(* --------------------------- sample values ---------------------------- *)

ShortId == <<"5", "0", "0", "x", "x", "0", "0", "0", "1">>
CaseId == ShortId \o <<"A">>
AcctId == <<"0", "0", "1", "x", "x", "0", "0", "0", "1", "B">>
IdPad == <<"0", "0", "1", "x", "x", "0", "0", "0", "1">>
Long256 == [i \in 1..(MaxTextLen + 1) |-> "x"]

Origins == {<<"Phone">>, <<"Email">>, <<"Web">>, <<"Chat">>, <<"Other">>}
Priorities == {<<"Low">>, <<"Medium">>, <<"High">>}

(* ------------------------- tool input schemas ------------------------- *)

Tools == {"soql_query", "get_case", "sfdc_whoami", "create_case",
          "list_cases_for_account", "update_case"}

\* z.string().min(lo).max(hi)
StrBetween(v, lo, hi) == Len(v) >= lo /\ Len(v) <= hi

\* z.string().min(lo)
StrMin(v, lo) == Len(v) >= lo

\* a required key
Req(c, k) == Has(c, k)

\* the limit schema with a ceiling of 25
LimitOkCeiling25(x) ==
  /\ x.frac = 0
  /\ x.whole >= MinLimit
  /\ x.whole <= 25

\* z.number().int().min(1).max(20)
LimitOk(x) ==
  /\ x.frac = 0
  /\ x.whole >= MinLimit
  /\ x.whole <= MaxLimit

SoqlSchema(c) == Req(c, "soql") /\ StrMin(c.soql, 1)

GetCaseSchema(c) == Req(c, "caseId") /\ StrMin(c.caseId, MinIdLen)

CreateCaseSchema(c) ==
  /\ Req(c, "subject") /\ StrBetween(c.subject, 1, MaxTextLen)
  /\ Has(c, "description") => StrBetween(c.description, 0, MaxDescLen)
  /\ Has(c, "origin") => c.origin \in Origins
  /\ Has(c, "priority") => c.priority \in Priorities
  /\ Has(c, "accountId") => StrMin(c.accountId, MinIdLen)
  /\ Has(c, "accountName") => StrBetween(c.accountName, 1, MaxTextLen)

ListCasesSchema(c) ==
  /\ Req(c, "accountId") /\ StrMin(c.accountId, MinIdLen)
  /\ Has(c, "limit") => LimitOk(c.limit)

UpdateCaseSchema(c) ==
  /\ Req(c, "caseId") /\ StrMin(c.caseId, MinIdLen)
  /\ Has(c, "subject") => StrBetween(c.subject, 1, MaxTextLen)
  /\ Has(c, "description") => StrBetween(c.description, 0, MaxDescLen)
  /\ Has(c, "status") => StrBetween(c.status, 1, MaxTextLen)
  /\ Has(c, "priority") => c.priority \in Priorities
  /\ Has(c, "origin") => c.origin \in Origins

\* the schema object handed to server.tool for the tool the call names
SchemaAccepts(c) ==
  CASE c.tool = "soql_query" -> SoqlSchema(c)
    [] c.tool = "get_case" -> GetCaseSchema(c)
    [] c.tool = "sfdc_whoami" -> TRUE
    [] c.tool = "create_case" -> CreateCaseSchema(c)
    [] c.tool = "list_cases_for_account" -> ListCasesSchema(c)
    [] c.tool = "update_case" -> UpdateCaseSchema(c)

\* the handler called whatever the arguments are
SchemaOkAlways(c) == TRUE

\* the check made on the arguments before the tool's handler is called
SchemaOk(c) == SchemaAccepts(c)

(* ------------------------------ inputs -------------------------------- *)

\* S extended by every way of also supplying key k with a value of vals
With(S, k, vals) == S \cup {r @@ (k :> v) : r \in S, v \in vals}

\* S with key k always supplied
Always(S, k, vals) == {r @@ (k :> v) : r \in S, v \in vals}

Names == StringsUpTo(MaxLen)
AccountIds == {IdPad \o t : t \in StringsUpTo(MaxLen)}
Limits == {Num(0, 0), Num(1, 0), Num(1, 5), Num(10, 0), Num(20, 0), Num(20, 5),
           Num(21, 0), Num(25, 0)}

SoqlCalls == Always({[tool |-> "soql_query"]}, "soql", {<<>>, <<"SELECT Id FROM Case">>})

GetCaseCalls == Always({[tool |-> "get_case"]}, "caseId", {ShortId, CaseId})

WhoamiCalls == {[tool |-> "sfdc_whoami"]}

CreateCaseCalls ==
  With(With(With(With(With(With(
    Always({[tool |-> "create_case"]}, "subject", {<<>>, <<"S">>, Long256}),
    "description", {<<>>, <<"D">>}),
    "origin", {<<"Web">>, <<"Fax">>}),
    "priority", {<<"High">>, <<"Urgent">>}),
    "status", {<<>>, <<"New">>}),
    "accountId", {ShortId, AcctId}),
    "accountName", Names)

ListCasesCalls ==
  With(Always({[tool |-> "list_cases_for_account"]}, "accountId", AccountIds),
       "limit", Limits)

UpdateCaseCalls ==
  With(With(With(With(With(
    Always({[tool |-> "update_case"]}, "caseId", {ShortId, CaseId}),
    "subject", {<<>>, <<"S">>}),
    "description", {<<>>, <<"D">>}),
    "status", {<<>>, <<"New">>}),
    "priority", {<<"High">>, <<"Urgent">>}),
    "origin", {<<"Web">>, <<"Fax">>})

AllCalls == SoqlCalls \cup GetCaseCalls \cup WhoamiCalls \cup CreateCaseCalls
              \cup ListCasesCalls \cup UpdateCaseCalls

\* the few calls drawn when several dispatches interleave
CoreCalls ==
  { [tool |-> "soql_query", soql |-> <<"SELECT Id FROM Case">>],
    [tool |-> "get_case", caseId |-> ShortId],
    [tool |-> "get_case", caseId |-> CaseId],
    [tool |-> "sfdc_whoami"],
    [tool |-> "create_case", subject |-> <<"S">>, accountName |-> <<"a">>],
    [tool |-> "list_cases_for_account", accountId |-> AcctId],
    [tool |-> "update_case", caseId |-> CaseId, status |-> <<"New">>] }

Calls == IF profile = "single" THEN AllCalls ELSE CoreCalls

Dispatches == IF profile = "single" THEN {1} ELSE 1..NumDispatch

(* --------------------------- Express layers --------------------------- *)

\* the layers of the app in the order the source registers them
Stack ==
  << [kind |-> "use", method |-> "*", path |-> "/", handler |-> "json"],
     [kind |-> "route", method |-> "POST", path |-> "/mcp", handler |-> "mcp"],
     [kind |-> "route", method |-> "GET", path |-> "/healthz", handler |-> "healthz"],
     [kind |-> "use", method |-> "*", path |-> "/mcp", handler |-> "requireApiKey"] >>

\* Express layer matching: app.use matches a path prefix for every method,
\* a route matches its method and its exact path
Matches(l, r) ==
  IF l.kind = "use" THEN l.path = "/" \/ l.path = r.path
  ELSE l.method = r.method /\ l.path = r.path

\* process.env.MCP_API_KEY
ConfiguredKey == "secret"

\* requireApiKey's test: !key || key !== process.env.MCP_API_KEY
KeyRejected(r) == r.key = "" \/ r.key # ConfiguredKey

AllHttpRequests ==
  [method : {"GET", "POST"}, path : {"/mcp", "/healthz"}, key : {"", "wrong", ConfiguredKey}]

\* the few requests drawn when several dispatches interleave
CoreHttpRequests ==
  { [method |-> "POST", path |-> "/mcp", key |-> ""],
    [method |-> "GET", path |-> "/mcp", key |-> ConfiguredKey],
    [method |-> "GET", path |-> "/healthz", key |-> ""] }

HttpRequests == IF profile = "single" THEN AllHttpRequests ELSE CoreHttpRequests

(* -------------------------- backend answers --------------------------- *)

EmptyFn == [x \in {} |-> x]

Undefined == <<"undefined">>

Field(r, k) == IF k \in DOMAIN r THEN r[k] ELSE Undefined

\* an optional argument as the handler's parameter: its value, or undefined
Arg(c, k) == IF Has(c, k) THEN c[k] ELSE Undefined

\* a truthy value: neither undefined nor the empty string
IsSet(v) == Truthy(v) /\ v # Undefined

\* fetch's resp.ok
RespOk(resp) == resp.status >= 200 /\ resp.status <= 299

TokenResponses ==
  { [status |-> 200, text |-> <<"{...}">>,
     json |-> [access_token |-> <<"00Dxx!AQ">>, instance_url |-> <<"https://org.example">>]],
    [status |-> 401, text |-> <<"invalid_client">>, json |-> [error |-> <<"invalid_client">>]],
    [status |-> 503, text |-> <<"unavailable">>, json |-> [error |-> <<"unavailable">>]] }

OtherAcctId == <<"0", "0", "1", "x", "x", "0", "0", "0", "2", "C">>

\* a promise of the connection settles: resolved with a value, or rejected
Resolved(v) == [ok |-> TRUE, value |-> v]
Rejected(code, detail) == [ok |-> FALSE, error |-> <<code, ": ", detail>>]

QueryAnswers ==
  { Resolved([records |-> <<>>]),
    Resolved([records |-> <<[Id |-> CaseId]>>]),
    Rejected("MALFORMED_QUERY", "unexpected token") }

LookupAnswers ==
  { Resolved([records |-> <<>>]),
    Resolved([records |-> <<[Id |-> AcctId]>>]),
    Resolved([records |-> <<[Id |-> OtherAcctId]>>]),
    Rejected("MALFORMED_QUERY", "unexpected token") }

RetrieveAnswers ==
  { Resolved([Id |-> CaseId]),
    Rejected("NOT_FOUND", "the requested resource does not exist") }

IdentityAnswers ==
  { Resolved([user_id |-> <<"005xx">>, organization_id |-> <<"00Dxx">>]),
    Rejected("INVALID_SESSION_ID", "session expired") }

SaveAnswers ==
  { Resolved([id |-> CaseId, success |-> TRUE, errors |-> <<>>]),
    Resolved([success |-> FALSE,
              errors |-> <<"FIELD_CUSTOM_VALIDATION_EXCEPTION", "REQUIRED_FIELD_MISSING">>]),
    Resolved([success |-> FALSE, errors |-> <<>>]),
    Resolved([id |-> CaseId]),
    Rejected("FIELD_CUSTOM_VALIDATION_EXCEPTION", "validation rule failed") }

(* ---------------------------- tool results ---------------------------- *)

\* JSON.stringify(v, null, 2)
Json(v) == [json |-> v]

Result(text) == [kind |-> "result", result |-> [content |-> <<[type |-> "text", text |-> text]>>]]

ErrorResult(text) ==
  [kind |-> "result",
   result |-> [content |-> <<[type |-> "text", text |-> text]>>, isError |-> TRUE]]

\* a rejected promise or a throw leaving the handler
Thrown(msg) == [kind |-> "thrown", message |-> msg]

InvalidParams == [kind |-> "invalid"]

Http(status) == [kind |-> "http", status |-> status]

NoOutcome == [kind |-> "none"]

(* ------------------------ connection and queries ---------------------- *)

NoConn == [instanceUrl |-> <<>>, accessToken |-> <<>>, dispatch |-> 0]

\* new jsforce.Connection({ instanceUrl, accessToken }), made in dispatch d
Connection(data, d) ==
  [instanceUrl |-> Field(data, "instance_url"),
   accessToken |-> Field(data, "access_token"),
   dispatch |-> d]

\* the throw taken for a 401 answer only
TokenFailedOnly401(resp) == resp.status = 401

\* if (!resp.ok) throw ...
TokenFailed(resp) == ~RespOk(resp)

TokenErrorMessage(resp) ==
  <<"Salesforce token error: ">> \o Dec(resp.status) \o <<" ">> \o resp.text

LookupSoql(accountName) ==
  <<"SELECT Id, Name FROM Account WHERE Name = ", Quote>>
    \o ReplaceQuotes(accountName)
    \o <<Quote, " ORDER BY CreatedDate DESC LIMIT 1">>

\* limit ?? 10
Lim(c) == IF Has(c, "limit") THEN c.limit ELSE Num(DefaultLimit, 0)

ListSoql(accountId, lim) ==
  <<"SELECT Id, CaseNumber, Subject, Status, Priority, CreatedDate FROM Case WHERE AccountId = ",
    Quote>>
    \o ReplaceQuotes(accountId)
    \o <<Quote, " ORDER BY CreatedDate DESC LIMIT ">>
    \o NumText(lim)

\* the test reading a misspelt parameter, so never true
BothGivenMisspelt(c) == Given(c, "accountId") /\ Given(c, "accountname")

\* accountId && accountName
BothGiven(c) == Given(c, "accountId") /\ Given(c, "accountName")

\* ...(v ? { K: v } : {})
Spread(c, k, K) == IF Given(c, k) THEN K :> c[k] ELSE EmptyFn

\* the fields object built from accountId instead of resolvedAccountId
CaseFieldsFromArg(c, rid) ==
  [Subject |-> c.subject]
    @@ Spread(c, "description", "Description")
    @@ Spread(c, "origin", "Origin")
    @@ Spread(c, "priority", "Priority")
    @@ Spread(c, "status", "Status")
    @@ Spread(c, "accountId", "AccountId")

\* the fields object of create_case
CaseFields(c, rid) ==
  [Subject |-> c.subject]
    @@ Spread(c, "description", "Description")
    @@ Spread(c, "origin", "Origin")
    @@ Spread(c, "priority", "Priority")
    @@ Spread(c, "status", "Status")
    @@ (IF IsSet(rid) THEN "AccountId" :> rid ELSE EmptyFn)

\* the updates object of update_case
UpdateFields(c) ==
  [Id |-> c.caseId]
    @@ Spread(c, "subject", "Subject")
    @@ Spread(c, "description", "Description")
    @@ Spread(c, "status", "Status")
    @@ Spread(c, "priority", "Priority")
    @@ Spread(c, "origin", "Origin")

\* the test against 0 keys, which Id alone already exceeds
NothingToUpdateZero(updates) == Cardinality(DOMAIN updates) = 0

\* Object.keys(updates).length === 1
NothingToUpdate(updates) == Cardinality(DOMAIN updates) = 1

\* the test result.success === false, which a missing flag passes
SaveFailedStrict(result) == Has(result, "success") /\ ~result.success

\* !result?.success
SaveFailed(result) == ~(Has(result, "success") /\ result.success)

\* Array.isArray(errors) ? errors.join("; ") : JSON.stringify(errors); err || "Unknown error"
ErrorDetail(result) ==
  LET err == IF Has(result, "errors") THEN Join(result.errors) ELSE <<>>
  IN  IF Truthy(err) THEN err ELSE <<"Unknown error">>

\* !q.records?.length
NoRecords(q) == ~Has(q, "records") \/ Len(q.records) = 0

(* ------------------------------- state -------------------------------- *)

NoReq == [method |-> "", path |-> "", key |-> ""]
NoCall == [tool |-> ""]

InitFor(p) ==
  /\ profile = p
  /\ LET D == IF p = "single" THEN {1} ELSE 1..NumDispatch IN
     /\ pc = [d \in D |-> "idle"]
     /\ req = [d \in D |-> NoReq]
     /\ layer = [d \in D |-> 0]
     /\ call = [d \in D |-> NoCall]
     /\ conn = [d \in D |-> NoConn]
     /\ resolvedAccountId = [d \in D |-> Undefined]
     /\ sent = [d \in D |-> <<>>]
     /\ outcome = [d \in D |-> NoOutcome]

Init == InitFor("single")

InitConc == InitFor("conc")

\* the step to pc value p, nothing else of the dispatch changing
Goto(d, p) == pc' = [pc EXCEPT ![d] = p]

\* the dispatch ends with outcome o
End(d, o) == Goto(d, "done") /\ outcome' = [outcome EXCEPT ![d] = o]

\* the outbound calls of d with one more, in flight on d's connection
Issued(d, c) == Append(sent[d], c @@ [state |-> "inflight", via |-> conn[d]])

\* the outbound calls of d with the last one settled by answer a
Settled(d, a) ==
  [sent[d] EXCEPT ![Len(sent[d])] = [@ EXCEPT !.state = "settled"] @@ ("answer" :> a)]

Last(d) == sent[d][Len(sent[d])]

(* --------------------------- Express routing -------------------------- *)

Receive(d) ==
  /\ pc[d] = "idle"
  /\ \E r \in HttpRequests : req' = [req EXCEPT ![d] = r]
  /\ layer' = [layer EXCEPT ![d] = 1]
  /\ Goto(d, "routing")
  /\ UNCHANGED <<profile, call, conn, resolvedAccountId, sent, outcome>>

AtLayer(d, h) ==
  /\ pc[d] = "routing"
  /\ layer[d] <= Len(Stack)
  /\ Matches(Stack[layer[d]], req[d])
  /\ Stack[layer[d]].handler = h

\* next(): the request goes on to the layers registered later
NextLayer(d) == layer' = [layer EXCEPT ![d] = @ + 1]

RouteSkip(d) ==
  /\ pc[d] = "routing"
  /\ layer[d] <= Len(Stack)
  /\ ~Matches(Stack[layer[d]], req[d])
  /\ NextLayer(d)
  /\ UNCHANGED <<profile, pc, req, call, conn, resolvedAccountId, sent, outcome>>

JsonBody(d) ==
  /\ AtLayer(d, "json")
  /\ NextLayer(d)
  /\ UNCHANGED <<profile, pc, req, call, conn, resolvedAccountId, sent, outcome>>

\* statelessHandler(serverFactory): answers the request itself, never calls next()
McpHandler(d) ==
  /\ AtLayer(d, "mcp")
  /\ \E c \in Calls : call' = [call EXCEPT ![d] = c]
  /\ Goto(d, "validate")
  /\ UNCHANGED <<profile, req, layer, conn, resolvedAccountId, sent, outcome>>

Healthz(d) ==
  /\ AtLayer(d, "healthz")
  /\ End(d, Http(200))
  /\ UNCHANGED <<profile, req, layer, call, conn, resolvedAccountId, sent>>

RequireApiKey(d) ==
  /\ AtLayer(d, "requireApiKey")
  /\ IF KeyRejected(req[d])
     THEN End(d, Http(401)) /\ UNCHANGED layer
     ELSE NextLayer(d) /\ UNCHANGED <<pc, outcome>>
  /\ UNCHANGED <<profile, req, call, conn, resolvedAccountId, sent>>

\* no layer is left: Express answers 404
NotFound(d) ==
  /\ pc[d] = "routing"
  /\ layer[d] > Len(Stack)
  /\ End(d, Http(404))
  /\ UNCHANGED <<profile, req, layer, call, conn, resolvedAccountId, sent>>

(* ------------------------ validation and auth ------------------------- *)

\* the tool's schema is applied to the arguments before its handler is called
Validate(d) ==
  /\ pc[d] = "validate"
  /\ IF SchemaOk(call[d])
     THEN Goto(d, "handler") /\ UNCHANGED outcome
     ELSE End(d, InvalidParams)
  /\ UNCHANGED <<profile, req, layer, call, conn, resolvedAccountId, sent>>

\* const conn = await getConn(): the fetch of the token endpoint is issued
GetConn(d) ==
  /\ pc[d] = "handler"
  /\ sent' = [sent EXCEPT ![d] = Append(@, [kind |-> "token", state |-> "inflight"])]
  /\ Goto(d, "await_token")
  /\ UNCHANGED <<profile, req, layer, call, conn, resolvedAccountId, outcome>>

\* the token endpoint answers
TokenDone(d) ==
  /\ pc[d] = "await_token"
  /\ \E resp \in TokenResponses :
       /\ sent' = [sent EXCEPT ![d] = Settled(d, resp)]
       /\ IF TokenFailed(resp)
          THEN End(d, Thrown(TokenErrorMessage(resp))) /\ UNCHANGED conn
          ELSE /\ conn' = [conn EXCEPT ![d] = Connection(resp.json, d)]
               /\ Goto(d, "run")
               /\ UNCHANGED outcome
  /\ UNCHANGED <<profile, req, layer, call, resolvedAccountId>>

Running(d, tool) == pc[d] = "run" /\ call[d].tool = tool

(* --------------------------- tool handlers ---------------------------- *)

\* an await on a connection call that rejects: the rejection leaves the handler
Propagate(d, a) == End(d, Thrown(a.error))

\* soql_query: conn.query(soql) is issued
SoqlQuery(d) ==
  /\ Running(d, "soql_query")
  /\ sent' = [sent EXCEPT ![d] = Issued(d, [kind |-> "query", soql |-> call[d].soql])]
  /\ Goto(d, "await_query")
  /\ UNCHANGED <<profile, req, layer, call, conn, resolvedAccountId, outcome>>

SoqlQueryDone(d) ==
  /\ pc[d] = "await_query"
  /\ \E a \in QueryAnswers :
       /\ sent' = [sent EXCEPT ![d] = Settled(d, a)]
       /\ IF a.ok THEN End(d, Result(Json(a.value.records))) ELSE Propagate(d, a)
  /\ UNCHANGED <<profile, req, layer, call, conn, resolvedAccountId>>

\* get_case: conn.sobject("Case").retrieve(caseId) is issued
GetCase(d) ==
  /\ Running(d, "get_case")
  /\ sent' = [sent EXCEPT ![d] =
                Issued(d, [kind |-> "retrieve", sobject |-> "Case", id |-> call[d].caseId])]
  /\ Goto(d, "await_retrieve")
  /\ UNCHANGED <<profile, req, layer, call, conn, resolvedAccountId, outcome>>

GetCaseDone(d) ==
  /\ pc[d] = "await_retrieve"
  /\ \E a \in RetrieveAnswers :
       /\ sent' = [sent EXCEPT ![d] = Settled(d, a)]
       /\ IF a.ok THEN End(d, Result(Json(a.value))) ELSE Propagate(d, a)
  /\ UNCHANGED <<profile, req, layer, call, conn, resolvedAccountId>>

\* sfdc_whoami: conn.identity() is issued
Whoami(d) ==
  /\ Running(d, "sfdc_whoami")
  /\ sent' = [sent EXCEPT ![d] = Issued(d, [kind |-> "identity"])]
  /\ Goto(d, "await_identity")
  /\ UNCHANGED <<profile, req, layer, call, conn, resolvedAccountId, outcome>>

WhoamiDone(d) ==
  /\ pc[d] = "await_identity"
  /\ \E a \in IdentityAnswers :
       /\ sent' = [sent EXCEPT ![d] = Settled(d, a)]
       /\ IF a.ok THEN End(d, Result(Json(a.value))) ELSE Propagate(d, a)
  /\ UNCHANGED <<profile, req, layer, call, conn, resolvedAccountId>>

CreateCall(c, rid) == [kind |-> "create", sobject |-> "Case", fields |-> CaseFields(c, rid)]

\* create_case, from the return of getConn to its first await or return
CreateCase(d) ==
  LET c == call[d] IN
  /\ Running(d, "create_case")
  /\ IF BothGiven(c)
     THEN /\ End(d, ErrorResult(<<"Provide either accountId OR accountName, not both.">>))
          /\ UNCHANGED <<sent, resolvedAccountId>>
     ELSE /\ resolvedAccountId' = [resolvedAccountId EXCEPT ![d] = Arg(c, "accountId")]
          /\ UNCHANGED outcome
          /\ IF ~IsSet(Arg(c, "accountId")) /\ Given(c, "accountName")
             THEN /\ sent' = [sent EXCEPT ![d] =
                                Issued(d, [kind |-> "query",
                                           soql |-> LookupSoql(c.accountName)])]
                  /\ Goto(d, "await_lookup")
             ELSE /\ sent' = [sent EXCEPT ![d] =
                                Issued(d, CreateCall(c, Arg(c, "accountId")))]
                  /\ Goto(d, "await_create")
  /\ UNCHANGED <<profile, req, layer, call, conn>>

NotFoundText(accountName) ==
  <<"Account not found by name: \"">> \o accountName
    \o <<"\". Provide accountId or create the Account first.">>

\* create_case: the account lookup settles; a record found, the create is issued
CreateCaseLookupDone(d) ==
  LET c == call[d] IN
  /\ pc[d] = "await_lookup"
  /\ \E a \in LookupAnswers :
       IF ~a.ok
       THEN /\ sent' = [sent EXCEPT ![d] = Settled(d, a)]
            /\ Propagate(d, a)
            /\ UNCHANGED resolvedAccountId
       ELSE IF NoRecords(a.value)
       THEN /\ sent' = [sent EXCEPT ![d] = Settled(d, a)]
            /\ End(d, ErrorResult(NotFoundText(c.accountName)))
            /\ UNCHANGED resolvedAccountId
       ELSE LET rid == a.value.records[1].Id IN
            /\ resolvedAccountId' = [resolvedAccountId EXCEPT ![d] = rid]
            /\ sent' = [sent EXCEPT ![d] =
                          Append(Settled(d, a),
                                 CreateCall(c, rid) @@ [state |-> "inflight", via |-> conn[d]])]
            /\ Goto(d, "await_create")
            /\ UNCHANGED outcome
  /\ UNCHANGED <<profile, req, layer, call, conn>>

Null == <<"null">>

\* create_case: conn.sobject("Case").create(fields) settles
CreateCaseDone(d) ==
  /\ pc[d] = "await_create"
  /\ \E a \in SaveAnswers :
       /\ sent' = [sent EXCEPT ![d] = Settled(d, a)]
       /\ IF ~a.ok THEN Propagate(d, a)
          ELSE IF SaveFailed(a.value)
          THEN End(d, ErrorResult(<<"Failed to create Case: ">> \o ErrorDetail(a.value)))
          ELSE End(d, Result(Json(
                 [id |-> Field(a.value, "id"), success |-> TRUE,
                  accountId |-> IF IsSet(resolvedAccountId[d])
                                THEN resolvedAccountId[d] ELSE Null])))
  /\ UNCHANGED <<profile, req, layer, call, conn, resolvedAccountId>>

\* list_cases_for_account: the query is issued
ListCases(d) ==
  LET c == call[d] IN
  /\ Running(d, "list_cases_for_account")
  /\ sent' = [sent EXCEPT ![d] =
                Issued(d, [kind |-> "query", soql |-> ListSoql(c.accountId, Lim(c))])]
  /\ Goto(d, "await_list")
  /\ UNCHANGED <<profile, req, layer, call, conn, resolvedAccountId, outcome>>

ListCasesDone(d) ==
  /\ pc[d] = "await_list"
  /\ \E a \in QueryAnswers :
       /\ sent' = [sent EXCEPT ![d] = Settled(d, a)]
       /\ IF a.ok THEN End(d, Result(Json(a.value.records))) ELSE Propagate(d, a)
  /\ UNCHANGED <<profile, req, layer, call, conn, resolvedAccountId>>

\* update_case, from the return of getConn to its first await or return
UpdateCase(d) ==
  LET updates == UpdateFields(call[d]) IN
  /\ Running(d, "update_case")
  /\ IF NothingToUpdate(updates)
     THEN End(d, ErrorResult(<<"No fields provided to update.">>)) /\ UNCHANGED sent
     ELSE /\ sent' = [sent EXCEPT ![d] =
                        Issued(d, [kind |-> "update", sobject |-> "Case", fields |-> updates])]
          /\ Goto(d, "await_update")
          /\ UNCHANGED outcome
  /\ UNCHANGED <<profile, req, layer, call, conn, resolvedAccountId>>

\* update_case: conn.sobject("Case").update(updates) settles
UpdateCaseDone(d) ==
  /\ pc[d] = "await_update"
  /\ \E a \in SaveAnswers :
       /\ sent' = [sent EXCEPT ![d] = Settled(d, a)]
       /\ IF ~a.ok THEN Propagate(d, a)
          ELSE IF SaveFailed(a.value)
          THEN End(d, ErrorResult(<<"Failed to update Case: ">> \o ErrorDetail(a.value)))
          ELSE End(d, Result(Json(
                 [id |-> call[d].caseId, success |-> TRUE,
                  updated |-> DOMAIN UpdateFields(call[d]) \ {"Id"}])))
  /\ UNCHANGED <<profile, req, layer, call, conn, resolvedAccountId>>

\* the response is written; the per-request server and its connection are dropped
Finish(d) ==
  /\ pc[d] = "done"
  /\ pc' = [pc EXCEPT ![d] = "idle"]
  /\ req' = [req EXCEPT ![d] = NoReq]
  /\ layer' = [layer EXCEPT ![d] = 0]
  /\ call' = [call EXCEPT ![d] = NoCall]
  /\ conn' = [conn EXCEPT ![d] = NoConn]
  /\ resolvedAccountId' = [resolvedAccountId EXCEPT ![d] = Undefined]
  /\ sent' = [sent EXCEPT ![d] = <<>>]
  /\ outcome' = [outcome EXCEPT ![d] = NoOutcome]
  /\ UNCHANGED profile

Next ==
  \E d \in Dispatches :
    \/ Receive(d)
    \/ RouteSkip(d)
    \/ JsonBody(d)
    \/ McpHandler(d)
    \/ Healthz(d)
    \/ RequireApiKey(d)
    \/ NotFound(d)
    \/ Validate(d)
    \/ GetConn(d)
    \/ TokenDone(d)
    \/ SoqlQuery(d)
    \/ SoqlQueryDone(d)
    \/ GetCase(d)
    \/ GetCaseDone(d)
    \/ Whoami(d)
    \/ WhoamiDone(d)
    \/ CreateCase(d)
    \/ CreateCaseLookupDone(d)
    \/ CreateCaseDone(d)
    \/ ListCases(d)
    \/ ListCasesDone(d)
    \/ UpdateCase(d)
    \/ UpdateCaseDone(d)
    \/ Finish(d)

Spec == Init /\ [][Next]_vars

SpecConc == InitConc /\ [][Next]_vars

(* ===================================================================== *)
(*                          checked properties                           *)
(* ===================================================================== *)

D == DOMAIN pc

Contains(text, sub) ==
  \E i \in 0..(Len(text) - Len(sub)) : SubSeq(text, i + 1, i + Len(sub)) = sub

IsResult(o) == o.kind = "result"

IsErr(o) == IsResult(o) /\ Has(o.result, "isError") /\ o.result.isError

TextOf(o) == o.result.content[1].text

\* the dispatch has entered the MCP handler
EnteredMcp(d) == call[d] # NoCall

\* the tool handler of the dispatch has been called
HandlerCalled(d) ==
  \/ pc[d] \in {"handler", "await_token", "run", "await_query", "await_retrieve",
                "await_identity", "await_lookup", "await_create", "await_list",
                "await_update"}
  \/ pc[d] = "done" /\ outcome[d].kind \in {"result", "thrown"}

Indices(d, kinds) == {i \in 1..Len(sent[d]) : sent[d][i].kind \in kinds}

BackendKinds == {"query", "retrieve", "create", "update", "identity"}

IsSettled(c) == c.state = "settled"

TokenAnsweredOk(d) ==
  Len(sent[d]) >= 1 /\ IsSettled(sent[d][1]) /\ sent[d][1].answer.status \in 200..299

TokenAnsweredBad(d) ==
  Len(sent[d]) >= 1 /\ IsSettled(sent[d][1]) /\ sent[d][1].answer.status \notin 200..299

(* ---- how the backend reads the string literal of a query text ---- *)

\* the index of the quote that ends the literal whose text starts at i
\* (a backslash escapes the character after it); 0 when it never ends
RECURSIVE LiteralEnd(_, _)
LiteralEnd(text, i) ==
  IF i > Len(text) THEN 0
  ELSE IF text[i] = Backslash THEN LiteralEnd(text, i + 2)
  ELSE IF text[i] = Quote THEN i
  ELSE LiteralEnd(text, i + 1)

\* the value a literal body denotes: each escape pair stands for its 2nd character
RECURSIVE Unescape(_)
Unescape(body) ==
  IF body = <<>> THEN <<>>
  ELSE IF Head(body) = Backslash /\ Len(body) >= 2
       THEN <<body[2]>> \o Unescape(Tail(Tail(body)))
       ELSE <<Head(body)>> \o Unescape(Tail(body))

AfterLiteral == {" ORDER BY CreatedDate DESC LIMIT 1", " ORDER BY CreatedDate DESC LIMIT "}

\* the quote the template puts after the caller's value
ClosingQuote(text) == CHOOSE i \in 1..Len(text) : i < Len(text) /\ text[i + 1] \in AfterLiteral

\* the literal opened by the template's quote ends at the template's closing
\* quote and denotes exactly value
LiteralHolds(text, value) ==
  /\ LiteralEnd(text, 3) = ClosingQuote(text)
  /\ Unescape(SubSeq(text, 3, ClosingQuote(text) - 1)) = value

\* the caller string a dispatch embeds in its query text
EmbeddedValue(d) ==
  IF call[d].tool = "create_case" THEN call[d].accountName ELSE call[d].accountId

\* C1: in every query create_case (accountName) or list_cases_for_account
\* (accountId) sends, the caller's value stays inside the one quoted literal:
\* the literal ends at the template's closing quote, never earlier or later,
\* and denotes exactly the caller's value.
C1_ValueStaysInsideLiteral ==
  \A d \in D :
    call[d].tool \in {"create_case", "list_cases_for_account"} =>
      \A i \in Indices(d, {"query"}) : LiteralHolds(sent[d][i].soql, EmbeddedValue(d))

\* C2: a POST to /mcp whose x-api-key is missing or wrong never enters the
\* MCP handler, causes no outbound call, and ends with 401.
C2_ApiKeyGate ==
  \A d \in D :
    (req[d].method = "POST" /\ req[d].path = "/mcp" /\ req[d].key # ConfiguredKey) =>
      /\ ~EnteredMcp(d)
      /\ sent[d] = <<>>
      /\ pc[d] = "done" => outcome[d] = Http(401)

\* the last outbound call of d is a backend call the backend answered with a
\* structured failure: a rejection, or a save result without success
BackendFailure(d) ==
  /\ Len(sent[d]) >= 2
  /\ IsSettled(Last(d))
  /\ Last(d).kind \in {"query", "retrieve", "create", "update"}
  /\ \/ ~Last(d).answer.ok
     \/ /\ Last(d).kind \in {"create", "update"}
        /\ ~(Has(Last(d).answer.value, "success") /\ Last(d).answer.value.success)

BackendDetail(a) ==
  IF ~a.ok THEN a.error
  ELSE IF Has(a.value, "errors") THEN Join(a.value.errors) ELSE <<>>

\* C3: a structured failure reported by the backend always ends the dispatch
\* with a ToolResult whose isError is true and whose text carries the
\* backend's detail, never with a thrown or propagated failure.
C3_BackendFailureIsErrorResult ==
  \A d \in D :
    (pc[d] = "done" /\ BackendFailure(d)) =>
      /\ IsErr(outcome[d])
      /\ Contains(TextOf(outcome[d]), BackendDetail(Last(d).answer))

BothSupplied(d) ==
  /\ call[d].tool = "create_case"
  /\ Has(call[d], "accountId")
  /\ Has(call[d], "accountName")

\* C4 as stated: create_case with validated arguments holding both accountId
\* and accountName always ends with a ToolResult with isError true, and
\* neither the account lookup nor the create call is issued.
C4_BothAlwaysErrorResult ==
  \A d \in D :
    (BothSupplied(d) /\ HandlerCalled(d)) =>
      /\ Indices(d, {"query", "create"}) = {}
      /\ pc[d] = "done" => IsErr(outcome[d])

\* C4 amended: with both accountId and accountName, neither the account
\* lookup nor the create call is ever issued; the dispatch ends with a
\* ToolResult with isError true when the token exchange succeeded, and with
\* the propagated token failure when it did not.
C4_BothRejectedAfterAuth ==
  \A d \in D :
    (BothSupplied(d) /\ HandlerCalled(d)) =>
      /\ Indices(d, {"query", "create"}) = {}
      /\ (pc[d] = "done" /\ TokenAnsweredOk(d)) =>
           /\ IsErr(outcome[d])
           /\ TextOf(outcome[d]) = <<"Provide either accountId OR accountName, not both.">>
      /\ (pc[d] = "done" /\ ~TokenAnsweredOk(d)) =>
           /\ TokenAnsweredBad(d)
           /\ outcome[d].kind = "thrown"

C4_Witness ==
  \E d \in D : BothSupplied(d) /\ pc[d] = "done" /\ IsErr(outcome[d]) /\ Len(sent[d]) = 1

\* C5: create_case with accountName only: when the account lookup returns no
\* record the dispatch ends with a ToolResult with isError true whose text
\* names the account, and no create call is issued; when it returns a record
\* the create call that follows carries AccountId equal to the Id of the first
\* returned record.
C5_LookupDecidesCreate ==
  \A d \in D :
    call[d].tool = "create_case" =>
      \A i \in Indices(d, {"query"}) :
        LET q == sent[d][i] IN
        (IsSettled(q) /\ q.answer.ok) =>
          IF Len(q.answer.value.records) = 0
          THEN /\ pc[d] = "done"
               /\ IsErr(outcome[d])
               /\ Contains(TextOf(outcome[d]), call[d].accountName)
               /\ Indices(d, {"create"}) = {}
          ELSE /\ Len(sent[d]) = i + 1
               /\ sent[d][i + 1].kind = "create"
               /\ Has(sent[d][i + 1].fields, "AccountId")
               /\ sent[d][i + 1].fields.AccountId = q.answer.value.records[1].Id

C5_Witness ==
  \E d \in D :
    /\ call[d].tool = "create_case"
    /\ ~Has(call[d], "accountId")
    /\ Len(sent[d]) = 3
    /\ sent[d][2].kind = "query"
    /\ sent[d][3].kind = "create"
    /\ sent[d][3].fields.AccountId = OtherAcctId

Editable == {"subject", "description", "status", "priority", "origin"}

FieldOf(k) ==
  CASE k = "subject" -> "Subject" [] k = "description" -> "Description"
    [] k = "status" -> "Status" [] k = "priority" -> "Priority" [] k = "origin" -> "Origin"

\* the update calls of d hold Id, at least one editable field, and only
\* fields the caller supplied, with the caller's values
UpdateCallsWellFormed(d) ==
  \A i \in Indices(d, {"update"}) :
    LET f == sent[d][i].fields IN
    /\ Has(f, "Id") /\ f.Id = call[d].caseId
    /\ \E k \in Editable : Has(f, FieldOf(k))
    /\ \A K \in DOMAIN f \ {"Id"} :
         \E k \in Editable : K = FieldOf(k) /\ Has(call[d], k) /\ f[K] = call[d][k]

NoEditableSupplied(d) == DOMAIN call[d] \cap Editable = {}

\* C6 as stated: update_case with no editable field besides caseId always ends
\* with a ToolResult with isError true and issues no update call; every update
\* call issued holds Id plus at least one editable field, and only fields the
\* caller supplied.
C6_NoFieldsAlwaysErrorResult ==
  \A d \in D :
    (call[d].tool = "update_case" /\ HandlerCalled(d)) =>
      /\ UpdateCallsWellFormed(d)
      /\ NoEditableSupplied(d) =>
           /\ Indices(d, {"update"}) = {}
           /\ pc[d] = "done" => IsErr(outcome[d])

\* C6 amended: update_case with no editable field besides caseId never issues
\* the update call; it ends with a ToolResult with isError true when the token
\* exchange succeeded and with the propagated token failure when it did not;
\* every update call issued holds Id plus at least one editable field, and
\* only fields the caller supplied.
C6_NoFieldsRejectedAfterAuth ==
  \A d \in D :
    (call[d].tool = "update_case" /\ HandlerCalled(d)) =>
      /\ UpdateCallsWellFormed(d)
      /\ NoEditableSupplied(d) =>
           /\ Indices(d, {"update"}) = {}
           /\ (pc[d] = "done" /\ TokenAnsweredOk(d)) =>
                /\ IsErr(outcome[d])
                /\ TextOf(outcome[d]) = <<"No fields provided to update.">>
           /\ (pc[d] = "done" /\ ~TokenAnsweredOk(d)) =>
                /\ TokenAnsweredBad(d)
                /\ outcome[d].kind = "thrown"

C6_Witness ==
  \E d \in D :
    /\ call[d].tool = "update_case"
    /\ NoEditableSupplied(d)
    /\ pc[d] = "done"
    /\ IsErr(outcome[d])
    /\ Len(sent[d]) = 1

DigitChars == {DigitChar(n) : n \in 0..9}

DigitVal(c) == CHOOSE n \in 0..9 : DigitChar(n) = c

RECURSIVE Undec(_)
Undec(ds) ==
  IF Len(ds) = 1 THEN DigitVal(ds[1])
  ELSE Undec(SubSeq(ds, 1, Len(ds) - 1)) * 10 + DigitVal(ds[Len(ds)])

\* the number the backend reads after LIMIT in a list query; -1 when what
\* follows LIMIT is not a run of digits
LimitOfText(text) ==
  LET k == CHOOSE i \in 1..Len(text) : text[i] = " ORDER BY CreatedDate DESC LIMIT "
      ds == SubSeq(text, k + 1, Len(text))
  IN  IF ds # <<>> /\ \A i \in 1..Len(ds) : ds[i] \in DigitChars THEN Undec(ds) ELSE -1

\* the limit is not one of the integers 1..20
OutsideLimit(x) == x.frac # 0 \/ x.whole < 1 \/ x.whole > 20

\* C7: list_cases_for_account with a limit outside the integers 1..20 is
\* rejected at validation with no token exchange and no backend query; every
\* query issued has a LIMIT equal to the supplied limit, or to 10 when limit
\* is omitted, and within 1..20.
C7_LimitBounds ==
  \A d \in D :
    call[d].tool = "list_cases_for_account" =>
      /\ (Has(call[d], "limit") /\ OutsideLimit(call[d].limit) /\ pc[d] # "validate") =>
           /\ pc[d] = "done"
           /\ outcome[d] = InvalidParams
           /\ sent[d] = <<>>
      /\ \A i \in Indices(d, {"query"}) :
           LET n == LimitOfText(sent[d][i].soql) IN
           /\ n = (IF Has(call[d], "limit") THEN call[d].limit.whole ELSE 10)
           /\ n \in 1..20

C7_Witness ==
  \E d \in D :
    /\ call[d].tool = "list_cases_for_account"
    /\ ~Has(call[d], "limit")
    /\ Indices(d, {"query"}) # {}
    /\ LimitOfText(Last(d).soql) = 10

\* C8: a dispatch whose arguments passed validation makes exactly one token
\* exchange, the first outbound call of the dispatch; every backend call runs
\* on the connection made from that exchange in the same dispatch; when the
\* token endpoint answers with a non-success status the dispatch ends in a
\* thrown failure whose message carries the status code and the response
\* body, and no backend call is issued.
C8_OneTokenExchange ==
  \A d \in D :
    /\ Cardinality(Indices(d, {"token"})) <= 1
    /\ (HandlerCalled(d) /\ pc[d] # "handler") => Indices(d, {"token"}) = {1}
    /\ TokenAnsweredBad(d) =>
         /\ pc[d] = "done"
         /\ outcome[d].kind = "thrown"
         /\ Contains(outcome[d].message, Dec(sent[d][1].answer.status))
         /\ Contains(outcome[d].message, sent[d][1].answer.text)
         /\ Len(sent[d]) = 1
    /\ \A i \in Indices(d, BackendKinds) :
         /\ TokenAnsweredOk(d)
         /\ sent[d][i].via.dispatch = d
         /\ sent[d][i].via.accessToken = sent[d][1].answer.json.access_token
         /\ sent[d][i].via.instanceUrl = sent[d][1].answer.json.instance_url

C8_Witness ==
  \E d1 \in D, d2 \in D :
    /\ d1 # d2
    /\ TokenAnsweredBad(d1)
    /\ outcome[d1].kind = "thrown"
    /\ Indices(d2, BackendKinds) # {}

SaveWithoutSuccess(d) ==
  /\ Len(sent[d]) >= 2
  /\ Last(d).kind \in {"create", "update"}
  /\ IsSettled(Last(d))
  /\ Last(d).answer.ok
  /\ ~(Has(Last(d).answer.value, "success") /\ Last(d).answer.value.success)

SaveKind(tool) == IF tool = "create_case" THEN "create" ELSE "update"

\* C9: create_case and update_case return a ToolResult without isError true (a
\* payload with success: true) only after the create or update call was issued
\* and the backend reported success; a backend result whose success flag is
\* false or missing gives a ToolResult with isError true whose text includes
\* the backend's errors joined together.
C9_SuccessOnlyAfterBackendSuccess ==
  \A d \in D :
    (call[d].tool \in {"create_case", "update_case"} /\ pc[d] = "done") =>
      /\ (IsResult(outcome[d]) /\ ~IsErr(outcome[d])) =>
           /\ Len(sent[d]) >= 2
           /\ Last(d).kind = SaveKind(call[d].tool)
           /\ IsSettled(Last(d))
           /\ Last(d).answer.ok
           /\ Has(Last(d).answer.value, "success")
           /\ Last(d).answer.value.success
           /\ TextOf(outcome[d]).json.success
      /\ SaveWithoutSuccess(d) =>
           /\ IsErr(outcome[d])
           /\ Has(Last(d).answer.value, "errors") =>
                Contains(TextOf(outcome[d]), Join(Last(d).answer.value.errors))

C9_Witness ==
  \E d \in D :
    /\ call[d].tool = "create_case"
    /\ pc[d] = "done"
    /\ SaveWithoutSuccess(d)
    /\ Has(Last(d).answer.value, "errors")
    /\ Len(Last(d).answer.value.errors) = 2
    /\ IsErr(outcome[d])

Awaiting == {"await_token", "await_query", "await_retrieve", "await_identity",
             "await_lookup", "await_create", "await_list", "await_update"}

\* C10: the steps of a dispatch are strictly sequential, also when dispatches
\* interleave: arguments the schema rejects never reach a handler and cause no
\* token exchange; the token exchange is the first outbound call and has
\* succeeded before any backend call is issued; in create_case the account
\* lookup has settled before the create call is issued; at most one outbound
\* call of a dispatch is in flight, and it is the last one issued.
C10_StrictlySequential ==
  \A d \in D :
    /\ \A i \in 1..Len(sent[d]) :
         sent[d][i].state = "inflight" => (i = Len(sent[d]) /\ pc[d] \in Awaiting)
    /\ (EnteredMcp(d) /\ ~SchemaAccepts(call[d])) => (~HandlerCalled(d) /\ sent[d] = <<>>)
    /\ pc[d] \in {"idle", "routing", "validate", "handler"} => sent[d] = <<>>
    /\ sent[d] # <<>> => sent[d][1].kind = "token"
    /\ Len(sent[d]) >= 2 => TokenAnsweredOk(d)
    /\ \A i \in Indices(d, {"create"}) :
         (Given(call[d], "accountName") /\ ~Has(call[d], "accountId")) =>
           /\ i = 3
           /\ sent[d][2].kind = "query"
           /\ IsSettled(sent[d][2])
           /\ sent[d][2].answer.ok

C10_Witness ==
  \E d1 \in D, d2 \in D :
    /\ d1 # d2
    /\ pc[d1] = "await_create"
    /\ Len(sent[d1]) = 3
    /\ pc[d2] = "await_token"

====
